---- MODULE Spec2Model ----
(***************************************************************************)
(* Employee attendance store: a fixed-size open-addressing hash table with *)
(* linear probing (utils/hashing.py), the batch record processor and the   *)
(* persistence of the table to database.json (app.py).                     *)
(***************************************************************************)
EXTENDS Integers, Sequences, FiniteSets, TLC

\* ------------------------------------------------------------------ bounds
MaxSize == 5        \* largest table capacity explored (HashTable(size=...))
MaxBatch == 2       \* longest raw_list handed to process_records
MaxUploads == 3     \* uploads started in a concurrent run
MaxAbsId == 12      \* ids -MaxAbsId .. MaxAbsId are hashed
Ids == {-1, 2, 7, 12}      \* employee ids used by the callers
Names == {"a", "b"}        \* name payloads, to tell versions of a record apart
Threads == {1, 2}          \* concurrent upload requests

\* ------------------------------------------------------------ Python values
\* Python's None in a slot / as a return value.
None == [none |-> TRUE]

\* Loosely typed cell of an uploaded row.
IntVal(n) == [t |-> "int", v |-> n]
StrVal(s) == [t |-> "str", s |-> s]
NoneVal == [t |-> "none"]

\* Python's int(x) on the cells that occur in RawRows: the integer for an
\* int, 7 for the string "7", an exception (ok = FALSE) for the string "abc"
\* and for None.
PyInt(x) ==
    IF x.t = "int" THEN [ok |-> TRUE, v |-> x.v]
    ELSE IF x.t = "str" /\ x.s = "7" THEN [ok |-> TRUE, v |-> 7]
    ELSE [ok |-> FALSE]

\* round(n / d, 0) with Python's round-half-to-even, for d > 0.
RoundHalfEven(n, d) ==
    LET q == n \div d
        r == n % d
    IN IF 2 * r < d THEN q
       ELSE IF 2 * r > d THEN q + 1
       ELSE IF q % 2 = 0 THEN q ELSE q + 1

\* attendance_percentage, in tenths of a percent (50.0 is 500).
Percent(attendance, total_days) ==
    IF total_days > 0 THEN RoundHalfEven(attendance * 1000, total_days) ELSE 0

\* ---------------------------------------------------------------- HashTable
Slots(sz) == 0 .. (sz - 1)

\* HashTable.__init__ / HashTable.clear: every slot None.
EmptyTable(sz) == [p \in Slots(sz) |-> None]

\* Variant: the remainder takes the sign of the id (truncated division).
HashTruncated(sz, emp_id) ==
    IF emp_id >= 0 THEN emp_id % sz ELSE 0 - ((0 - emp_id) % sz)

\* Python's % with a positive divisor is non-negative, as TLA+'s.
hash_function(sz, emp_id) == emp_id % sz

\* Variant: the probe starts one slot after the home slot.
ProbePosSkipHome(sz, idx, i) == (idx + i + 1) % sz

\* pos = (idx + i) % self.size
ProbePos(sz, idx, i) == (idx + i) % sz

\* Variant: the id comparison never succeeds.
SameIdNever(slot, emp_id) == FALSE

\* int(slot.get("id")) == emp_id
SameId(slot, emp_id) == slot.id = emp_id

\* Variant: a full table overwrites slot 0.
FallbackIndexFirst(sz, idx) == 0

\* The slot overwritten when the probe loop found neither an empty slot nor
\* the id: self.table[idx] = record.copy().
FallbackIndex(sz, idx) == idx

\* Variant: a slot that already holds the id is left as it is.
RECURSIVE InsertLoopKeepOld(_, _, _, _, _, _)
InsertLoopKeepOld(sz, t, record, idx, i, seen) ==
    IF i >= sz
    THEN [table |-> [t EXCEPT ![FallbackIndex(sz, idx)] = record],
          ret |-> FallbackIndex(sz, idx), branch |-> "full", probed |-> seen]
    ELSE LET pos == ProbePos(sz, idx, i)
             slot == t[pos]
         IN IF slot = None
            THEN [table |-> [t EXCEPT ![pos] = record], ret |-> pos,
                  branch |-> "empty", probed |-> Append(seen, pos)]
            ELSE IF SameId(slot, record.id)
            THEN [table |-> t, ret |-> pos,
                  branch |-> "replace", probed |-> Append(seen, pos)]
            ELSE InsertLoopKeepOld(sz, t, record, idx, i + 1, Append(seen, pos))

\* Variant: a full table is cleared before the record is stored.
RECURSIVE InsertLoopResetOnFull(_, _, _, _, _, _)
InsertLoopResetOnFull(sz, t, record, idx, i, seen) ==
    IF i >= sz
    THEN [table |-> [p \in DOMAIN t |-> IF p = FallbackIndex(sz, idx) THEN record ELSE None],
          ret |-> FallbackIndex(sz, idx), branch |-> "full", probed |-> seen]
    ELSE LET pos == ProbePos(sz, idx, i)
             slot == t[pos]
         IN IF slot = None
            THEN [table |-> [t EXCEPT ![pos] = record], ret |-> pos,
                  branch |-> "empty", probed |-> Append(seen, pos)]
            ELSE IF SameId(slot, record.id)
            THEN [table |-> [t EXCEPT ![pos] = record], ret |-> pos,
                  branch |-> "replace", probed |-> Append(seen, pos)]
            ELSE InsertLoopResetOnFull(sz, t, record, idx, i + 1, Append(seen, pos))

\* HashTable.insert: the probe loop from iteration i on.  The result carries
\* the new table, the returned index, the return statement taken and the
\* slot indices the loop examined.
RECURSIVE InsertLoop(_, _, _, _, _, _)
InsertLoop(sz, t, record, idx, i, seen) ==
    IF i >= sz
    THEN [table |-> [t EXCEPT ![FallbackIndex(sz, idx)] = record],
          ret |-> FallbackIndex(sz, idx), branch |-> "full", probed |-> seen]
    ELSE LET pos == ProbePos(sz, idx, i)
             slot == t[pos]
         IN IF slot = None
            THEN [table |-> [t EXCEPT ![pos] = record], ret |-> pos,
                  branch |-> "empty", probed |-> Append(seen, pos)]
            ELSE IF SameId(slot, record.id)
            THEN [table |-> [t EXCEPT ![pos] = record], ret |-> pos,
                  branch |-> "replace", probed |-> Append(seen, pos)]
            ELSE InsertLoop(sz, t, record, idx, i + 1, Append(seen, pos))

insert(sz, t, record) ==
    InsertLoop(sz, t, record, hash_function(sz, record.id), 0, <<>>)

\* Variant: the lookup probes on past an empty slot.
RECURSIVE GetLoopPastEmpty(_, _, _, _, _, _)
GetLoopPastEmpty(sz, t, emp_id, idx, i, trace) ==
    IF i >= sz
    THEN [record |-> None, trace |-> trace, pos |-> -1]
    ELSE LET pos == ProbePos(sz, idx, i)
             slot == t[pos]
             tr == Append(trace, [index |-> pos, slot |-> slot])
         IN IF slot # None /\ SameId(slot, emp_id)
            THEN [record |-> slot, trace |-> tr, pos |-> pos]
            ELSE GetLoopPastEmpty(sz, t, emp_id, idx, i + 1, tr)

\* Variant: the lookup gives up one probe early.
RECURSIVE GetLoopShort(_, _, _, _, _, _)
GetLoopShort(sz, t, emp_id, idx, i, trace) ==
    IF i >= sz - 1
    THEN [record |-> None, trace |-> trace, pos |-> -1]
    ELSE LET pos == ProbePos(sz, idx, i)
             slot == t[pos]
             tr == Append(trace, [index |-> pos, slot |-> slot])
         IN IF slot = None
            THEN [record |-> None, trace |-> tr, pos |-> -1]
            ELSE IF SameId(slot, emp_id)
            THEN [record |-> slot, trace |-> tr, pos |-> pos]
            ELSE GetLoopShort(sz, t, emp_id, idx, i + 1, tr)

\* HashTable.get: the probe loop from iteration i on; trace is the list of
\* {"index": pos, "slot": self.table[pos]} appended so far.  pos is the
\* index of the slot whose record is returned (the caller receives that
\* very object), -1 when None is returned.
RECURSIVE GetLoop(_, _, _, _, _, _)
GetLoop(sz, t, emp_id, idx, i, trace) ==
    IF i >= sz
    THEN [record |-> None, trace |-> trace, pos |-> -1]
    ELSE LET pos == ProbePos(sz, idx, i)
             slot == t[pos]
             tr == Append(trace, [index |-> pos, slot |-> slot])
         IN IF slot = None
            THEN [record |-> None, trace |-> tr, pos |-> -1]
            ELSE IF SameId(slot, emp_id)
            THEN [record |-> slot, trace |-> tr, pos |-> pos]
            ELSE GetLoop(sz, t, emp_id, idx, i + 1, tr)

get(sz, t, emp_id) == GetLoop(sz, t, emp_id, hash_function(sz, emp_id), 0, <<>>)

\* Variant: the stored records in descending slot order.
RECURSIVE FlattenDescending(_, _, _)
FlattenDescending(sz, t, p) ==
    IF p >= sz THEN <<>>
    ELSE IF t[p] = None THEN FlattenDescending(sz, t, p + 1)
    ELSE FlattenDescending(sz, t, p + 1) \o <<t[p]>>

\* Variant: slot 0 is left out of the snapshot.
RECURSIVE FlattenSkipFirst(_, _, _)
FlattenSkipFirst(sz, t, p) ==
    IF p >= sz THEN <<>>
    ELSE IF t[p] = None \/ p = 0 THEN FlattenSkipFirst(sz, t, p + 1)
    ELSE <<t[p]>> \o FlattenSkipFirst(sz, t, p + 1)

\* HashTable.flatten: the stored records in ascending slot order, from slot
\* p on.
RECURSIVE FlattenFrom(_, _, _)
FlattenFrom(sz, t, p) ==
    IF p >= sz THEN <<>>
    ELSE IF t[p] = None THEN FlattenFrom(sz, t, p + 1)
    ELSE <<t[p]>> \o FlattenFrom(sz, t, p + 1)

flatten(sz, t) == FlattenFrom(sz, t, 0)

\* for r in records: hash_table.insert(r)
RECURSIVE InsertAll(_, _, _)
InsertAll(sz, t, records) ==
    IF records = <<>> THEN t
    ELSE InsertAll(sz, insert(sz, t, Head(records)).table, Tail(records))

\* rebuild_hashtable_from_list: clear, then insert every record in order.
rebuild_hashtable_from_list(sz, records) == InsertAll(sz, EmptyTable(sz), records)

\* ------------------------------------------------------- process_records
\* str(x).strip() on the names that occur in the uploaded rows.
Strip(s) == IF s = " b " THEN "b" ELSE s

\* The record dict built from one successfully parsed row (hash_idx is
\* emp_id % HASH_TABLE_SIZE, and the table is HashTable(size=HASH_TABLE_SIZE)).
MakeRecord(sz, emp_id, name, dept, attendance, total_days) ==
    [id |-> emp_id, name |-> name, department |-> dept,
     attendance |-> attendance,
     total_days |-> total_days,
     attendance_percentage |-> Percent(attendance, total_days),
     hash_index |-> emp_id % sz]

\* The try block of process_records: any exception skips the row.
ParseRow(sz, rec) ==
    LET emp_id == PyInt(rec.id)
        attendance == PyInt(rec.attendance)
        total_days == IF rec.total_days = NoneVal THEN [ok |-> TRUE, v |-> 0]
                      ELSE PyInt(rec.total_days)
    IN IF emp_id.ok /\ attendance.ok /\ total_days.ok
       THEN [ok |-> TRUE,
             record |-> MakeRecord(sz, emp_id.v, Strip(rec.name),
                                   Strip(rec.department),
                                   attendance.v, total_days.v)]
       ELSE [ok |-> FALSE]

\* Variant: the first malformed row ends the batch.
RECURSIVE ProcessLoopAbort(_, _, _, _)
ProcessLoopAbort(sz, t, raw_list, processed) ==
    IF raw_list = <<>> THEN [table |-> t, processed |-> processed]
    ELSE LET row == ParseRow(sz, Head(raw_list))
         IN IF row.ok
            THEN ProcessLoopAbort(sz, insert(sz, t, row.record).table,
                                  Tail(raw_list), Append(processed, row.record))
            ELSE [table |-> t, processed |-> processed]

\* The for loop of process_records over raw_list: the table after the
\* inserts and the list of processed records.
RECURSIVE ProcessLoop(_, _, _, _)
ProcessLoop(sz, t, raw_list, processed) ==
    IF raw_list = <<>> THEN [table |-> t, processed |-> processed]
    ELSE LET row == ParseRow(sz, Head(raw_list))
         IN IF row.ok
            THEN ProcessLoop(sz, insert(sz, t, row.record).table,
                             Tail(raw_list), Append(processed, row.record))
            ELSE ProcessLoop(sz, t, Tail(raw_list), processed)

process_records(sz, t, raw_list) == ProcessLoop(sz, t, raw_list, <<>>)

\* ------------------------------------------------------------------ inputs
\* Rows an upload may carry: well-formed ones, an id given as a numeric
\* string with a missing total_days, a non-integer id, and a non-integer
\* attendance under a well-formed id.
RawRows ==
    { [id |-> IntVal(2), name |-> "a", department |-> "CSE",
       attendance |-> IntVal(1), total_days |-> IntVal(2)],
      [id |-> StrVal("7"), name |-> " b ", department |-> "EE",
       attendance |-> IntVal(1), total_days |-> NoneVal],
      [id |-> IntVal(-1), name |-> "b", department |-> "CSE",
       attendance |-> IntVal(1), total_days |-> IntVal(2)],
      [id |-> StrVal("abc"), name |-> "a", department |-> "CSE",
       attendance |-> IntVal(1), total_days |-> IntVal(2)],
      [id |-> IntVal(2), name |-> "b", department |-> "CSE",
       attendance |-> StrVal("abc"), total_days |-> IntVal(2)] }

RECURSIVE SeqsUpTo(_, _)
SeqsUpTo(S, n) ==
    IF n = 0 THEN {<<>>}
    ELSE LET shorter == SeqsUpTo(S, n - 1)
         IN shorter \cup {Append(q, x) : q \in shorter, x \in S}

\* Records handed directly to HashTable.insert.
Records(sz) == {MakeRecord(sz, k, n, "CSE", 1, 2) : k \in Ids, n \in Names}

\* Records of the query examples: two with 50.0 percent, one with 30.0.
QueryIds == {1, 2, 3}
QueryRecords(sz) ==
    { MakeRecord(sz, 1, "Go Lin", "CSE", 1, 2),
      MakeRecord(sz, 2, "Ann", "CSE", 1, 2),
      MakeRecord(sz, 3, "Bo", "EE", 3, 10) }

\* ------------------------------------------------------------- query layer
\* The characters of the strings that occur as names, departments, sort
\* orders and queries.
Chars(s) ==
    CASE s = "" -> <<>>
      [] s = "a" -> <<"a">>
      [] s = "b" -> <<"b">>
      [] s = "Go Lin" -> <<"G", "o", " ", "L", "i", "n">>
      [] s = "Ann" -> <<"A", "n", "n">>
      [] s = "Bo" -> <<"B", "o">>
      [] s = "CSE" -> <<"C", "S", "E">>
      [] s = "EE" -> <<"E", "E">>
      [] s = "go" -> <<"g", "o">>
      [] s = " GO " -> <<" ", "G", "O", " ">>
      [] s = "n" -> <<"n">>
      [] s = " " -> <<" ">>
      [] s = "cse" -> <<"c", "s", "e">>
      [] s = "e" -> <<"e">>
      [] s = "1" -> <<"1">>
      [] s = "asc" -> <<"a", "s", "c">>
      [] s = "desc" -> <<"d", "e", "s", "c">>
      [] s = "DESC" -> <<"D", "E", "S", "C">>
      [] s = "up" -> <<"u", "p">>

\* str.lower() on one character.
LowerChar(c) ==
    CASE c = "A" -> "a" [] c = "B" -> "b" [] c = "C" -> "c" [] c = "D" -> "d"
      [] c = "E" -> "e" [] c = "G" -> "g" [] c = "L" -> "l" [] c = "O" -> "o"
      [] c = "S" -> "s" [] OTHER -> c

\* str.lower()
Lower(cs) == [j \in DOMAIN cs |-> LowerChar(cs[j])]

\* str.strip(): leading and trailing blanks removed.
RECURSIVE StripChars(_)
StripChars(cs) ==
    IF cs = <<>> THEN cs
    ELSE IF Head(cs) = " " THEN StripChars(Tail(cs))
    ELSE IF cs[Len(cs)] = " " THEN StripChars(SubSeq(cs, 1, Len(cs) - 1))
    ELSE cs

\* Python's q in s on strings.
Contains(q, cs) ==
    \E j \in 0 .. (Len(cs) - Len(q)) : SubSeq(cs, j + 1, j + Len(q)) = q

\* str(n) for an integer n.
Digit(d) ==
    CASE d = 0 -> "0" [] d = 1 -> "1" [] d = 2 -> "2" [] d = 3 -> "3"
      [] d = 4 -> "4" [] d = 5 -> "5" [] d = 6 -> "6" [] d = 7 -> "7"
      [] d = 8 -> "8" [] d = 9 -> "9"

RECURSIVE StrOfNat(_)
StrOfNat(n) == IF n < 10 THEN <<Digit(n)>> ELSE Append(StrOfNat(n \div 10), Digit(n % 10))

StrOfInt(n) == IF n < 0 THEN <<"-">> \o StrOfNat(-n) ELSE StrOfNat(n)

\* search_by_name: the loop over flatten(), with the list of checked
\* (id, name) pairs and the list of matches.
RECURSIVE SearchByNameLoop(_, _, _, _)
SearchByNameLoop(name_lower, slots, matches, checked) ==
    IF slots = <<>> THEN [matches |-> matches, checked |-> checked]
    ELSE LET slot == Head(slots)
             seen == Append(checked, [id |-> slot.id, name |-> slot.name])
         IN IF Contains(name_lower, Lower(Chars(slot.name)))
            THEN SearchByNameLoop(name_lower, Tail(slots), Append(matches, slot), seen)
            ELSE SearchByNameLoop(name_lower, Tail(slots), matches, seen)

search_by_name(sz, t, name) ==
    SearchByNameLoop(Lower(StripChars(Chars(name))), flatten(sz, t), <<>>, <<>>)

\* Variant: a record matches when any one of the queries matches.
RECURSIVE DynamicLoopAny(_, _, _, _, _)
DynamicLoopAny(id_query, name_query, dept_query, all_records, results) ==
    IF all_records = <<>> THEN results
    ELSE LET r == Head(all_records)
         IN IF \/ (id_query = <<>> \/ Contains(id_query, Lower(StrOfInt(r.id))))
               \/ (name_query = <<>> \/ Contains(name_query, Lower(Chars(r.name))))
               \/ (dept_query = <<>> \/ Contains(dept_query, Lower(Chars(r.department))))
            THEN DynamicLoopAny(id_query, name_query, dept_query, Tail(all_records),
                                Append(results, r))
            ELSE DynamicLoopAny(id_query, name_query, dept_query, Tail(all_records),
                                results)

\* api_dynamic_search: the loop over all_records with the three stripped,
\* lower-cased queries.
RECURSIVE DynamicLoop(_, _, _, _, _)
DynamicLoop(id_query, name_query, dept_query, all_records, results) ==
    IF all_records = <<>> THEN results
    ELSE LET r == Head(all_records)
         IN IF /\ (id_query = <<>> \/ Contains(id_query, Lower(StrOfInt(r.id))))
               /\ (name_query = <<>> \/ Contains(name_query, Lower(Chars(r.name))))
               /\ (dept_query = <<>> \/ Contains(dept_query, Lower(Chars(r.department))))
            THEN DynamicLoop(id_query, name_query, dept_query, Tail(all_records),
                             Append(results, r))
            ELSE DynamicLoop(id_query, name_query, dept_query, Tail(all_records),
                             results)

api_dynamic_search(sz, t, id_arg, name_arg, dept_arg) ==
    DynamicLoop(Lower(StripChars(Chars(id_arg))), Lower(StripChars(Chars(name_arg))),
                Lower(StripChars(Chars(dept_arg))), flatten(sz, t), <<>>)

\* sorted(..., key=attendance_percentage, reverse=reverse) is stable in both
\* directions: x goes before the first element that must follow it.
RECURSIVE SortedInsert(_, _, _)
SortedInsert(out, x, reverse) ==
    IF out = <<>> THEN <<x>>
    ELSE LET y == Head(out)
             after == IF reverse
                      THEN y.attendance_percentage < x.attendance_percentage
                      ELSE y.attendance_percentage > x.attendance_percentage
         IN IF after THEN <<x>> \o out
            ELSE <<y>> \o SortedInsert(Tail(out), x, reverse)

RECURSIVE SortedFrom(_, _, _)
SortedFrom(records, out, reverse) ==
    IF records = <<>> THEN out
    ELSE SortedFrom(Tail(records), SortedInsert(out, Head(records), reverse), reverse)

Reverse(q) == [j \in DOMAIN q |-> q[Len(q) + 1 - j]]

\* Variant: descending order as the reversed ascending order.
SortReversedAscending(records, order) ==
    IF order = "desc" THEN Reverse(SortedFrom(records, <<>>, FALSE))
    ELSE SortedFrom(records, <<>>, FALSE)

sort_employees_by_percentage(records, order) ==
    SortedFrom(records, <<>>, order = "desc")

\* api_sort: the order is lower-cased and validated before the table is read.
api_sort(sz, t, order) ==
    LET lowered == Lower(Chars(order))
    IN IF lowered = Chars("asc")
       THEN [status |-> 200, body |-> sort_employees_by_percentage(flatten(sz, t), "asc")]
       ELSE IF lowered = Chars("desc")
       THEN [status |-> 200, body |-> sort_employees_by_percentage(flatten(sz, t), "desc")]
       ELSE [status |-> 400, body |-> <<>>]

\* api_filter: attendance_percentage >= percent, percentages in tenths.
api_filter(sz, t, percent) ==
    SelectSeq(flatten(sz, t), LAMBDA r : r.attendance_percentage >= percent * 10)

\* HashTable.as_list
as_list(sz, t) ==
    [j \in 1 .. sz |->
        IF t[j - 1] = None THEN None
        ELSE [index |-> j - 1, id |-> t[j - 1].id, name |-> t[j - 1].name,
              attendance_percentage |-> t[j - 1].attendance_percentage]]

\* Queries, orders and thresholds the read requests carry.
NameQueries == {"", "go", " GO ", "n", " "}
IdQueries == {"", "1"}
DeptQueries == {"", "cse", "e"}
Orders == {"asc", "desc", "DESC", "up"}
Percents == {0, 30, 40, 51}

\* ------------------------------------------------------------------- state
VARIABLES
    size,       \* HashTable.size
    table,      \* HashTable.table
    database,   \* content of database.json
    op,         \* the last operation executed
    arg,        \* its argument
    ret,        \* its return value
    branch,     \* for insert: the return statement taken
    probed,     \* for insert: the slot indices examined
    refs,       \* slots whose dict object the caller holds a reference to
    latest,     \* id -> record of the last insert of that id since clear()
    discarded,  \* ids whose record a table-full overwrite removed
    fellBack,   \* a table-full overwrite happened since clear()
    th,         \* per request thread: position inside an upload
    started     \* number of concurrent uploads started so far

vars == <<size, table, database, op, arg, ret, branch, probed, refs,
          latest, discarded, fellBack, th, started>>

Idle == [pc |-> "idle"]

\* Bookkeeping of one insert call on the history variables.
HistAfter(h, t, record, res) ==
    LET old == t[res.ret]
        lost == IF res.branch = "full" THEN {old.id} ELSE {}
    IN [latest |-> [h.latest EXCEPT ![record.id] = record],
        discarded |-> (h.discarded \cup lost) \ {record.id},
        fellBack |-> h.fellBack \/ res.branch = "full"]

RECURSIVE HistAll(_, _, _, _)
HistAll(sz, h, t, records) ==
    IF records = <<>> THEN h
    ELSE LET res == insert(sz, t, Head(records))
         IN HistAll(sz, HistAfter(h, t, Head(records), res), res.table,
                    Tail(records))

NoHist == [latest |-> [k \in Ids \cup QueryIds |-> None], discarded |-> {}, fellBack |-> FALSE]
Hist == [latest |-> latest, discarded |-> discarded, fellBack |-> fellBack]

\* Module start of app.py with no database.json: an empty list is loaded
\* and the table is built from it.
Init ==
    /\ size \in 1 .. MaxSize
    /\ table = rebuild_hashtable_from_list(size, <<>>)
    /\ database = <<>>
    /\ op = "init" /\ arg = None /\ ret = None
    /\ branch = "none" /\ probed = <<>> /\ refs = {}
    /\ latest = NoHist.latest /\ discarded = {} /\ fellBack = FALSE
    /\ th = [x \in Threads |-> Idle]
    /\ started = 0

\* hash_table.insert(record)
Insert(record) ==
    LET res == insert(size, table, record)
        h == HistAfter(Hist, table, record, res)
    IN /\ table' = res.table
       /\ op' = "insert" /\ arg' = record /\ ret' = res.ret
       /\ branch' = res.branch /\ probed' = res.probed
       /\ refs' = {}
       /\ latest' = h.latest /\ discarded' = h.discarded /\ fellBack' = h.fellBack
       /\ UNCHANGED <<size, database, th, started>>

\* hash_table.get(emp_id) (search_by_id)
Get(emp_id) ==
    LET res == get(size, table, emp_id)
    IN /\ op' = "get" /\ arg' = emp_id
       /\ ret' = [record |-> res.record, trace |-> res.trace]
       /\ refs' = IF res.pos >= 0 THEN {res.pos} ELSE {}
       /\ branch' = "none" /\ probed' = <<>>
       /\ UNCHANGED <<size, table, database, latest, discarded, fellBack, th, started>>

\* hash_table.flatten() (view_all)
Flatten ==
    /\ op' = "flatten" /\ arg' = None
    /\ ret' = flatten(size, table)
    /\ refs' = {p \in Slots(size) : table[p] # None}
    /\ branch' = "none" /\ probed' = <<>>
    /\ UNCHANGED <<size, table, database, latest, discarded, fellBack, th, started>>

\* process_records(raw_list), with save_database_from_hashtable at its end.
ProcessRecords(raw_list) ==
    LET res == process_records(size, table, raw_list)
        h == HistAll(size, Hist, table, res.processed)
    IN /\ table' = res.table
       /\ database' = flatten(size, res.table)
       /\ op' = "process" /\ arg' = raw_list /\ ret' = res.processed
       /\ branch' = "none" /\ probed' = <<>> /\ refs' = {}
       /\ latest' = h.latest /\ discarded' = h.discarded /\ fellBack' = h.fellBack
       /\ UNCHANGED <<size, th, started>>

\* Process restart: database.json is loaded and the table rebuilt from it.
Restart ==
    LET h == HistAll(size, NoHist, EmptyTable(size), database)
    IN /\ table' = rebuild_hashtable_from_list(size, database)
       /\ op' = "rebuild" /\ arg' = database /\ ret' = None
       /\ branch' = "none" /\ probed' = <<>> /\ refs' = {}
       /\ latest' = h.latest /\ discarded' = h.discarded /\ fellBack' = h.fellBack
       /\ UNCHANGED <<size, database, th, started>>

\* The HashTable class driven directly by its callers.
Next ==
    \/ \E record \in Records(size) : Insert(record)
    \/ \E emp_id \in Ids : Get(emp_id)
    \/ Flatten

Spec == Init /\ [][Next]_vars

\* The application: uploads, reads and restarts from database.json.
NextApp ==
    \/ \E raw_list \in SeqsUpTo(RawRows, MaxBatch) : ProcessRecords(raw_list)
    \/ Restart
    \/ \E emp_id \in Ids : Get(emp_id)
    \/ Flatten

SpecApp == Init /\ [][NextApp]_vars

\* ------------------------------------------------- callers holding records
\* The caller of insert changes a field of the dict it passed in.  The table
\* stored record.copy(), so no slot shares that dict (refs is empty).
MutateArgument(name) ==
    /\ op = "insert" /\ arg.name # name
    /\ arg' = [arg EXCEPT !.name = name]
    /\ op' = "mutate" /\ ret' = None
    /\ UNCHANGED <<size, table, database, branch, probed, refs, latest,
                   discarded, fellBack, th, started>>

\* The caller of get or flatten changes a field of a dict it received.  get
\* returns slot and flatten returns the slots themselves, so the dict is the
\* one stored in slot p.
MutateReturned(p, name) ==
    /\ p \in refs /\ table[p].name # name
    /\ table' = [table EXCEPT ![p].name = name]
    /\ op' = "mutate" /\ ret' = None
    /\ UNCHANGED <<size, database, arg, branch, probed, refs, latest,
                   discarded, fellBack, th, started>>

NextAlias ==
    \/ Next
    \/ \E name \in Names : MutateArgument(name)
    \/ \E p \in Slots(size), name \in Names : MutateReturned(p, name)

SpecAlias == Init /\ [][NextAlias]_vars

\* ------------------------------------------------------ concurrent uploads
\* The development server handles each request on its own thread and the
\* module holds no lock: the steps of insert calls made by two uploads
\* interleave between the read of a slot and the write to it.

\* An upload reaches hash_table.insert(record): emp_id and idx are computed.
BeginInsert(x, record) ==
    /\ th[x].pc = "idle" /\ started < MaxUploads
    /\ started' = started + 1
    /\ th' = [th EXCEPT ![x] = [pc |-> "probe", rec |-> record,
                                idx |-> hash_function(size, record.id),
                                i |-> 0, pos |-> 0]]
    /\ UNCHANGED <<size, table, database, op, arg, ret, branch, probed, refs,
                   latest, discarded, fellBack>>

\* One iteration of the probe loop up to the decision: slot is read and
\* compared; the write is a later step.
ProbeStep(x) ==
    LET me == th[x]
        pos == ProbePos(size, me.idx, me.i)
        slot == table[pos]
    IN /\ me.pc = "probe"
       /\ th' = [th EXCEPT ![x] =
                   IF me.i >= size
                   THEN [me EXCEPT !.pc = "overwrite", !.pos = FallbackIndex(size, me.idx)]
                   ELSE IF slot = None THEN [me EXCEPT !.pc = "place", !.pos = pos]
                   ELSE IF SameId(slot, me.rec.id)
                   THEN [me EXCEPT !.pc = "replace", !.pos = pos]
                   ELSE [me EXCEPT !.i = me.i + 1]]
       /\ UNCHANGED <<size, table, database, op, arg, ret, branch, probed, refs,
                      latest, discarded, fellBack, started>>

\* self.table[pos] = record.copy(); return pos
WriteStep(x) ==
    LET me == th[x]
        old == table[me.pos]
    IN /\ me.pc \in {"place", "replace", "overwrite"}
       /\ table' = [table EXCEPT ![me.pos] = me.rec]
       /\ latest' = [latest EXCEPT ![me.rec.id] = me.rec]
       /\ discarded' = (IF me.pc = "overwrite" THEN discarded \cup {old.id}
                        ELSE discarded) \ {me.rec.id}
       /\ fellBack' = (fellBack \/ me.pc = "overwrite")
       /\ th' = [th EXCEPT ![x] = [me EXCEPT !.pc = "save"]]
       /\ UNCHANGED <<size, database, op, arg, ret, branch, probed, refs, started>>

\* save_database_from_hashtable() at the end of the upload.
SaveStep(x) ==
    /\ th[x].pc = "save"
    /\ database' = flatten(size, table)
    /\ th' = [th EXCEPT ![x] = Idle]
    /\ UNCHANGED <<size, table, op, arg, ret, branch, probed, refs, latest,
                   discarded, fellBack, started>>

NextConc ==
    \E x \in Threads :
        \/ \E record \in Records(size) : BeginInsert(x, record)
        \/ ProbeStep(x)
        \/ WriteStep(x)
        \/ SaveStep(x)

SpecConc == Init /\ [][NextConc]_vars

\* ------------------------------------------------------------ read requests
\* Slots whose dict object occurs in a list of records handed to the caller.
SlotsOf(records) ==
    {p \in Slots(size) : table[p] # None /\ \E j \in DOMAIN records : records[j] = table[p]}

\* search_by_name(hash_table, name)
SearchByName(name) ==
    LET res == search_by_name(size, table, name)
    IN /\ op' = "search_name" /\ arg' = name /\ ret' = res
       /\ refs' = SlotsOf(res.matches)
       /\ branch' = "none" /\ probed' = <<>>
       /\ UNCHANGED <<size, table, database, latest, discarded, fellBack, th, started>>

\* api_dynamic_search with the query arguments id, name and department.
DynamicSearch(id_arg, name_arg, dept_arg) ==
    LET res == api_dynamic_search(size, table, id_arg, name_arg, dept_arg)
    IN /\ op' = "dynamic" /\ arg' = <<id_arg, name_arg, dept_arg>> /\ ret' = res
       /\ refs' = SlotsOf(res)
       /\ branch' = "none" /\ probed' = <<>>
       /\ UNCHANGED <<size, table, database, latest, discarded, fellBack, th, started>>

\* Variant: the sorted order is stored back into the occupied slots.
SortStoresBack(order) ==
    LET res == api_sort(size, table, order)
        place(p) == Cardinality({q \in Slots(size) : q <= p /\ table[q] # None})
    IN /\ op' = "sort" /\ arg' = order /\ ret' = res
       /\ table' = [p \in Slots(size) |->
                       IF table[p] = None \/ res.status # 200 THEN table[p]
                       ELSE res.body[place(p)]]
       /\ refs' = SlotsOf(res.body)
       /\ branch' = "none" /\ probed' = <<>>
       /\ UNCHANGED <<size, database, latest, discarded, fellBack, th, started>>

\* api_sort(order)
Sort(order) ==
    LET res == api_sort(size, table, order)
    IN /\ op' = "sort" /\ arg' = order /\ ret' = res
       /\ refs' = SlotsOf(res.body)
       /\ branch' = "none" /\ probed' = <<>>
       /\ UNCHANGED <<size, table, database, latest, discarded, fellBack, th, started>>

\* api_filter(percent)
Filter(percent) ==
    LET res == api_filter(size, table, percent)
    IN /\ op' = "filter" /\ arg' = percent /\ ret' = res
       /\ refs' = SlotsOf(res)
       /\ branch' = "none" /\ probed' = <<>>
       /\ UNCHANGED <<size, table, database, latest, discarded, fellBack, th, started>>

\* hash_table.as_list() (hash_view): the summaries are new dicts.
AsList ==
    /\ op' = "as_list" /\ arg' = None /\ ret' = as_list(size, table)
    /\ refs' = {}
    /\ branch' = "none" /\ probed' = <<>>
    /\ UNCHANGED <<size, table, database, latest, discarded, fellBack, th, started>>

\* The query layer over a table filled with the example records.
NextQuery ==
    \/ \E record \in QueryRecords(size) : Insert(record)
    \/ \E emp_id \in QueryIds : Get(emp_id)
    \/ Flatten
    \/ AsList
    \/ \E name \in NameQueries : SearchByName(name)
    \/ \E id_arg \in IdQueries, name_arg \in NameQueries, dept_arg \in DeptQueries :
           DynamicSearch(id_arg, name_arg, dept_arg)
    \/ \E order \in Orders : Sort(order)
    \/ \E percent \in Percents : Filter(percent)

SpecQuery == Init /\ [][NextQuery]_vars

\* rebuild_hashtable_from_list(hash_table, hash_table.flatten()): the
\* snapshot that save_database_from_hashtable persists, loaded back.
Rebuild ==
    LET records == flatten(size, table)
        h == HistAll(size, NoHist, EmptyTable(size), records)
    IN /\ table' = rebuild_hashtable_from_list(size, records)
       /\ op' = "rebuild" /\ arg' = records /\ ret' = None
       /\ branch' = "none" /\ probed' = <<>> /\ refs' = {}
       /\ latest' = h.latest /\ discarded' = h.discarded /\ fellBack' = h.fellBack
       /\ UNCHANGED <<size, database, th, started>>

\* The HashTable class with inserts, lookups and rebuilds.
NextStore ==
    \/ Next
    \/ Rebuild

SpecStore == Init /\ [][NextStore]_vars

\* -------------------------------------------------------------- properties
Occupied(t) == {p \in DOMAIN t : t[p] # None}

\* The (slot, id) pairs of a table.
IdsAt(t) == {<<p, t[p].id>> : p \in Occupied(t)}

\* id k is stored in no slot of t.
Absent(t, k) == \A p \in Occupied(t) : t[p].id # k

\* The number of slots a probe for id k examines in t before it stops: up
\* to and including the first slot that is empty or holds k, else all.
ProbeLength(sz, t, k) ==
    LET h == k % sz
        stops == {j \in 0 .. sz - 1 :
                    \/ t[(h + j) % sz] = None
                    \/ t[(h + j) % sz].id = k}
    IN IF stops = {} THEN sz
       ELSE (CHOOSE j \in stops : \A j2 \in stops : j <= j2) + 1

\* The slot indices (hash(k) + i) mod capacity, i = 0, 1, ..., of that probe.
ProbeIndices(sz, t, k) ==
    [j \in 1 .. ProbeLength(sz, t, k) |-> ((k % sz) + j - 1) % sz]

\* C1: after any sequence of inserts (colliding ids, repeated ids, inserts
\* into a full table) no two occupied slots hold records with equal id.
Uniqueness ==
    \A p, q \in Occupied(table) : p # q => table[p].id # table[q].id

\* C1 witness: an id was replaced in a table that had overflowed before.
UniquenessWitness ==
    /\ op = "insert" /\ branch = "replace" /\ fellBack
    /\ Cardinality(Occupied(table)) >= 2

\* C2: an insert of an id that slot p holds writes the new record into slot
\* p, returns p and leaves the number of occupied slots unchanged.
ReplaceSemantics ==
    [][\A p \in Occupied(table) :
          (op' = "insert" /\ table[p].id = arg'.id)
              => /\ table'[p] = arg'
                 /\ ret' = p
                 /\ Cardinality(Occupied(table')) = Cardinality(Occupied(table))]_vars

\* C2 witness: a record was replaced in a slot other than its home slot by
\* a record with another name.
ReplaceWitness ==
    /\ op = "insert" /\ branch = "replace"
    /\ ret # hash_function(size, arg.id)
    /\ table[ret] = arg /\ arg.name = "b"

\* C4: the trace of get(id) lists the indices (hash(id)+i) mod capacity in
\* order, each with the content of that slot, and ends at the first slot
\* that is empty or holds the id (or after capacity entries); insert
\* examines the same indices for that id.
ProbeDeterminism ==
    /\ \A k \in Ids :
         LET ix == ProbeIndices(size, table, k)
         IN /\ get(size, table, k).trace =
                   [j \in DOMAIN ix |-> [index |-> ix[j], slot |-> table[ix[j]]]]
            /\ \A record \in Records(size) :
                   record.id = k => insert(size, table, record).probed = ix
    /\ op = "get" =>
         ret.trace = [j \in DOMAIN ProbeIndices(size, table, arg) |->
                         [index |-> ProbeIndices(size, table, arg)[j],
                          slot |-> table[ProbeIndices(size, table, arg)[j]]]]

\* C4 witness: with capacity 5 and ids 2, 7, 12 stored, get(12) has visited
\* slots 2, 3, 4 in that order.
ProbeWitness ==
    /\ size = 5 /\ op = "get" /\ arg = 12
    /\ [j \in DOMAIN ret.trace |-> ret.trace[j].index] = <<2, 3, 4>>
    /\ ret.record # None

\* The first empty slot of the probe sequence of id k.
FirstEmpty(sz, t, k) ==
    LET js == {j \in 0 .. sz - 1 : t[((k % sz) + j) % sz] = None}
    IN ((k % sz) + (CHOOSE j \in js : \A j2 \in js : j <= j2)) % sz

\* C5: when the table has an empty slot and no slot holds the id, insert
\* stores the record in the first empty slot of the probe sequence and
\* returns its index; with capacity 5, ids 2, 7, 12 inserted in order into
\* an empty table go to slots 2, 3 and 4.
InsertPlacement ==
    [][op' = "insert" =>
         /\ (Occupied(table) # DOMAIN table /\ Absent(table, arg'.id))
              => /\ ret' = FirstEmpty(size, table, arg'.id)
                 /\ table' = [table EXCEPT ![FirstEmpty(size, table, arg'.id)] = arg']
         /\ (size = 5 /\ IdsAt(table) = {} /\ arg'.id = 2)
              => IdsAt(table') = {<<2, 2>>} /\ ret' = 2
         /\ (size = 5 /\ IdsAt(table) = {<<2, 2>>} /\ arg'.id = 7)
              => IdsAt(table') = {<<2, 2>>, <<3, 7>>} /\ ret' = 3
         /\ (size = 5 /\ IdsAt(table) = {<<2, 2>>, <<3, 7>>} /\ arg'.id = 12)
              => IdsAt(table') = {<<2, 2>>, <<3, 7>>, <<4, 12>>} /\ ret' = 4]_vars

\* C5 witness: capacity 5, the insert of id 12 after ids 2 and 7 returned 4.
PlacementWitness ==
    /\ size = 5 /\ op = "insert" /\ branch = "empty" /\ arg.id = 12 /\ ret = 4
    /\ IdsAt(table) = {<<2, 2>>, <<3, 7>>, <<4, 12>>}

\* C6: get(id) returns the record most recently inserted with that id, or
\* not-found only when a table-full overwrite discarded that record; right
\* after insert(r), get(r.id) returns r.
LaterInsertReplaces ==
    /\ \A k \in Ids :
         LET g == get(size, table, k).record
         IN /\ g = None \/ g = latest[k]
            /\ (g = None /\ latest[k] # None) => k \in discarded
    /\ op = "insert" => get(size, table, arg.id).record = arg

\* C6 witness: a second version of an id was inserted while another id's
\* record is gone after a table-full overwrite.
LaterInsertWitness ==
    /\ op = "insert" /\ branch = "replace" /\ arg.name = "b"
    /\ discarded # {}
    /\ \E k \in discarded : get(size, table, k).record = None

\* C7: when every slot is occupied and none holds the id, insert overwrites
\* the slot at hash(id), returns that index, leaves every other slot
\* unchanged and the table full.
FullTableFallback ==
    [][(op' = "insert" /\ Occupied(table) = DOMAIN table /\ Absent(table, arg'.id))
          => /\ table' = [table EXCEPT ![arg'.id % size] = arg']
             /\ ret' = arg'.id % size
             /\ Occupied(table') = DOMAIN table'
             /\ Cardinality(Occupied(table')) = size]_vars

\* C7 witness: a table of at least three slots overflowed at a home slot
\* other than slot 0.
FallbackWitness ==
    /\ op = "insert" /\ branch = "full" /\ size >= 3 /\ ret # 0
    /\ table[ret] = arg

\* No stored record lies below its home slot: no probe wrapped around the
\* end of the slot array.
NoWrap(sz, t) == \A p \in Occupied(t) : hash_function(sz, t[p].id) <= p

\* C3 as stated: from a table reached by inserts without a table-full
\* overwrite, rebuilding from s = flatten() gives flatten() = s again, also
\* when probes wrapped around the end of the slot array.
RebuildIdempotence ==
    [][(op' = "rebuild" /\ ~fellBack /\ arg' = flatten(size, table))
          => flatten(size, table') = flatten(size, table)]_vars

\* C3 amended: the same, for tables in which no probe wrapped around the
\* end of the slot array.
RebuildIdempotenceNoWrap ==
    [][(op' = "rebuild" /\ ~fellBack /\ arg' = flatten(size, table)
          /\ NoWrap(size, table))
          => flatten(size, table') = flatten(size, table)]_vars

\* C3 witness: a table with a record displaced from its home slot by a
\* collision, none wrapped, was rebuilt from its own snapshot.
RebuildWitness ==
    /\ op = "rebuild" /\ ~fellBack /\ NoWrap(size, table)
    /\ arg = flatten(size, table) /\ Len(arg) >= 3
    /\ \E p \in Occupied(table) : hash_function(size, table[p].id) < p

\* A row all of whose integer fields parse.
RowParses(row) ==
    /\ PyInt(row.id).ok
    /\ PyInt(row.attendance).ok
    /\ row.total_days = NoneVal \/ PyInt(row.total_days).ok

\* The rows of raw_list that satisfy Test, in input order.
RowsWhere(raw_list, Test(_)) == SelectSeq(raw_list, Test)

IdParses(row) == PyInt(row.id).ok

\* C8 as stated: exactly the rows whose id does not parse as an integer are
\* omitted; the returned list holds one record per other row, in input
\* order.
MalformedIdSkipped ==
    op = "process" =>
        [j \in DOMAIN ret |-> ret[j].id] =
            [j \in DOMAIN RowsWhere(arg, IdParses) |->
                PyInt(RowsWhere(arg, IdParses)[j].id).v]

\* C8 amended: exactly the rows whose id, attendance or total_days does not
\* parse as an integer are omitted; the returned list holds the records of
\* the other rows in input order, and the table is the one obtained by
\* inserting those records in that order.
MalformedRowsSkipped ==
    [][op' = "process" =>
         LET good == RowsWhere(arg', RowParses)
         IN /\ ret' = [j \in DOMAIN good |->
                          MakeRecord(size, PyInt(good[j].id).v, Strip(good[j].name),
                                     Strip(good[j].department),
                                     PyInt(good[j].attendance).v,
                                     IF good[j].total_days = NoneVal THEN 0
                                     ELSE PyInt(good[j].total_days).v)]
            /\ table' = InsertAll(size, table, ret')
            /\ database' = flatten(size, table')]_vars

\* C8 witness: a batch whose first row has a non-integer id and whose second
\* row is well-formed; the second row was inserted.
MalformedRowsWitness ==
    /\ op = "process" /\ Len(arg) = 2
    /\ ~IdParses(arg[1]) /\ RowParses(arg[2])
    /\ Len(ret) = 1 /\ ret[1].id = PyInt(arg[2].id).v
    /\ \E p \in Occupied(table) : table[p] = ret[1]

\* C9: changing the caller's record after insert, or a record obtained
\* from get or flatten, changes no slot of the table.
TableOwnsCopies == [][op' = "mutate" => table' = table]_vars

\* C10: with uploads running at once, inserts behave as if each ran alone:
\* no two slots hold the same id and, once the uploads have returned, no
\* inserted record is missing from a table that still has an empty slot.
InsertsAreAtomic ==
    /\ Uniqueness
    /\ ((\A x \in Threads : th[x].pc = "idle") /\ Occupied(table) # DOMAIN table)
          => \A k \in Ids :
                latest[k] # None => \E p \in Occupied(table) : table[p] = latest[k]

\* The exclusive lock of C10: at most one request is inside insert.
ExclusiveLock ==
    \A x, y \in Threads :
        (x # y /\ th[x].pc # "idle") => th[y].pc = "idle"

ReadOps == {"get", "flatten", "as_list", "search_name", "dynamic", "sort", "filter"}

IdsOf(records) == [j \in DOMAIN records |-> records[j].id]

\* C11: get, search_by_name, the dynamic search, the sort, the threshold
\* filter, flatten and as_list leave every slot of the table as it was.
ReadsDoNotMutate ==
    [][op' \in ReadOps => (table' = table /\ size' = size)]_vars

\* C11 witness: a sort returned the records in an order other than the slot
\* order, which the table still has.
ReadsWitness ==
    /\ op = "sort" /\ ret.status = 200 /\ Len(ret.body) = 3
    /\ ret.body # flatten(size, table)
    /\ IdsOf(flatten(size, table)) = <<1, 2, 3>>

\* out is inp ordered by attendance_percentage (descending when desc), with
\* records of equal percentage in their order of inp.  The records of inp
\* are pairwise distinct.
IsStableSort(inp, out, desc) ==
    LET Pos(r) == CHOOSE j \in DOMAIN inp : inp[j] = r
    IN /\ Len(out) = Len(inp)
       /\ {out[j] : j \in DOMAIN out} = {inp[j] : j \in DOMAIN inp}
       /\ \A i, j \in DOMAIN out :
            i < j =>
              /\ IF desc
                 THEN out[i].attendance_percentage >= out[j].attendance_percentage
                 ELSE out[i].attendance_percentage <= out[j].attendance_percentage
              /\ out[i].attendance_percentage = out[j].attendance_percentage
                    => Pos(out[i]) < Pos(out[j])

\* C12: for 'asc' and 'desc' the sort returns a permutation of the snapshot
\* ordered by attendance_percentage in which ties keep their snapshot order;
\* [(id1,50),(id2,50),(id3,30)] ascending gives [id3,id1,id2].
SortStability ==
    LET snap == flatten(size, table)
    IN /\ IsStableSort(snap, sort_employees_by_percentage(snap, "asc"), FALSE)
       /\ IsStableSort(snap, sort_employees_by_percentage(snap, "desc"), TRUE)
       /\ (op = "sort" /\ ret.status = 200)
            => IsStableSort(snap, ret.body, Lower(Chars(arg)) = Chars("desc"))
       /\ (IdsOf(snap) = <<1, 2, 3>>)
            => IdsOf(sort_employees_by_percentage(snap, "asc")) = <<3, 1, 2>>

\* C12 witness: the snapshot [id1 50.0, id2 50.0, id3 30.0] was sorted
\* ascending into [id3, id1, id2].
SortWitness ==
    /\ op = "sort" /\ arg = "asc"
    /\ IdsOf(flatten(size, table)) = <<1, 2, 3>>
    /\ [j \in DOMAIN ret.body |-> ret.body[j].attendance_percentage] = <<300, 500, 500>>
    /\ IdsOf(ret.body) = <<3, 1, 2>>

\* The lower-cased string forms of the three searched fields of a record.
FieldText(r) ==
    <<Lower(StrOfInt(r.id)), Lower(Chars(r.name)), Lower(Chars(r.department))>>

\* C13 as stated: the dynamic search returns, in snapshot order, the records
\* for which every non-empty query is a case-insensitive substring of the
\* field; an empty query imposes no constraint.
DynamicFilterAnd ==
    op = "dynamic" =>
        ret = SelectSeq(flatten(size, table),
                        LAMBDA r : \A f \in 1 .. 3 :
                            arg[f] = "" \/ Contains(Lower(Chars(arg[f])), FieldText(r)[f]))

\* C13 amended: the same with every query first trimmed of surrounding
\* whitespace; a query that is empty after trimming imposes no constraint.
DynamicFilterAndTrimmed ==
    op = "dynamic" =>
        ret = SelectSeq(flatten(size, table),
                        LAMBDA r : \A f \in 1 .. 3 :
                            LET q == Lower(StripChars(Chars(arg[f])))
                            IN q = <<>> \/ Contains(q, FieldText(r)[f]))

\* C13 witness: with Go Lin and Ann stored, the name query "go" returned
\* only record 1.
DynamicWitness ==
    /\ op = "dynamic" /\ arg = <<"", "go", "">>
    /\ {1, 2} \subseteq {flatten(size, table)[j].id : j \in DOMAIN flatten(size, table)}
    /\ IdsOf(ret) = <<1>>

\* C14: for every id, negative ones included, hash_function(id) lies in
\* [0, capacity), and insert and get only touch slots 0 .. capacity-1.
HashIndexRange ==
    /\ \A k \in (0 - MaxAbsId) .. MaxAbsId : hash_function(size, k) \in 0 .. size - 1
    /\ \A k \in Ids :
         LET tr == get(size, table, k).trace
         IN \A j \in DOMAIN tr : tr[j].index \in 0 .. size - 1
    /\ \A record \in Records(size) :
         LET res == insert(size, table, record)
         IN /\ res.ret \in 0 .. size - 1
            /\ \A j \in DOMAIN res.probed : res.probed[j] \in 0 .. size - 1
            /\ DOMAIN res.table = 0 .. size - 1
    /\ DOMAIN table = 0 .. size - 1

\* C14 witness: the negative id -1 was inserted into the last slot of a
\* table of capacity 5.
HashRangeWitness ==
    /\ op = "insert" /\ arg.id = -1 /\ size = 5 /\ ret = 4
    /\ table[4] = arg /\ branch = "empty"

\* C15: for every occupied slot p, get of the id stored there returns the
\* record of slot p; get reports not-found only for ids no slot holds.
StoredIsReachable ==
    /\ \A p \in Occupied(table) :
         /\ get(size, table, table[p].id).record = table[p]
         /\ get(size, table, table[p].id).pos = p
    /\ \A k \in Ids : get(size, table, k).record = None => Absent(table, k)

\* C15 witness: after a table-full overwrite, a lookup found a record away
\* from its home slot.
ReachableWitness ==
    /\ fellBack /\ op = "get" /\ ret.record # None
    /\ Len(ret.trace) >= 2
    /\ table[ret.trace[Len(ret.trace)].index] = ret.record

RecordsIn(t) == {t[p] : p \in Occupied(t)}

\* C16: restarting from the persisted snapshot gives a table with the same
\* set of records, and every get returns the record it returned before.
RoundTripKeepsContents ==
    [][op' = "rebuild" =>
         /\ RecordsIn(table') = RecordsIn(table)
         /\ \A k \in Ids : get(size, table', k).record = get(size, table, k).record]_vars

\* C16 witness: a restart put at least one record into another slot and
\* kept the records.
RoundTripWitness ==
    /\ op = "rebuild" /\ Len(arg) >= 2
    /\ RecordsIn(table) = {arg[j] : j \in DOMAIN arg}
    /\ flatten(size, table) # arg

\* C17: an insert writes the slot whose index it returns and leaves every
\* other slot unchanged; the number of slots stays the capacity, the
\* occupied count grows by 0 or 1 and never exceeds the capacity, and an
\* occupied slot stays occupied until a rebuild.
InsertFrame ==
    [][/\ size' = size /\ DOMAIN table' = 0 .. size - 1
       /\ Cardinality(Occupied(table')) <= size
       /\ op' # "rebuild" => Occupied(table) \subseteq Occupied(table')
       /\ op' = "insert" =>
            /\ table'[ret'] = arg'
            /\ \A p \in DOMAIN table : p # ret' => table'[p] = table[p]
            /\ Cardinality(Occupied(table')) - Cardinality(Occupied(table)) \in {0, 1}]_vars

\* C17 witness: a table-full overwrite in a table of three or more slots.
InsertFrameWitness ==
    /\ op = "insert" /\ branch = "full" /\ size >= 3
    /\ Occupied(table) = DOMAIN table
    /\ \E p \in DOMAIN table : p # ret /\ table[p] # arg

====
